---- MODULE Spec2Model ----
(***************************************************************************)
(* generate_drum_midi.py: the duration classifier, the mapping loader and  *)
(* the three-pass MIDI sequencer with its timing report.                   *)
(*                                                                         *)
(* Units.  Python floats are modelled by exact fixed-point integers:       *)
(*   base durations       tenths of a second   (5.0 s  -> 50)              *)
(*   spacing_multiplier   thousandths          (1.0    -> 1000)            *)
(*   seconds in the timing file, as printed by %.4f: 1/10000 s             *)
(* so base_duration * spacing_multiplier is exactly d10 * s1000 units of   *)
(* 1/10000 s, and duration_beats * ticks_per_beat is the rational          *)
(* d10 * s1000 * bpm * 480 / 600000.  A name is a sequence of one-character *)
(* strings, so that lower() and the substring test `in` are computed.      *)
(***************************************************************************)
EXTENDS Integers, Sequences, FiniteSets, TLC

VARIABLES
    pc,                 \* position of the run in main() / generate_drum_midi()
    mapping_file,       \* the parsed-to-be JSON text: shape and members in file order
    spacing_multiplier, \* thousandths
    velocity,
    bpm,
    drum_mapping,       \* result of load_drum_mapping: list of (note, name, duration)
    track,              \* mid.tracks[0], the in-memory MidiTrack
    events,             \* the sorted `events` list of the final pass
    midi_file,          \* what is on disk at output_path
    timing_file,        \* what is on disk at <output>.timing.txt
    sound_name,         \* argument of a direct get_duration_for_sound call
    sound_duration      \* its result (tenths of a second), -1 before the call

vars == <<pc, mapping_file, spacing_multiplier, velocity, bpm, drum_mapping,
          track, events, midi_file, timing_file, sound_name, sound_duration>>

-----------------------------------------------------------------------------
(* Bounds of the model *)

MaxEntries == 3     \* longest mapping fed to generate_drum_midi
MaxMembers == 3     \* longest mapping file fed to load_drum_mapping alone
MaxTokens == 2      \* tokens concatenated into a classifier input name

-----------------------------------------------------------------------------
(* Program constants *)

DEFAULT_TICKS_PER_BEAT == 480   \* mido's MidiFile default, read at line 132
MAX_DATA_BYTE == 127            \* mido Message: note and velocity are 7-bit
MAX_TEMPO == 16777215           \* mido set_tempo: 24-bit microseconds per beat

-----------------------------------------------------------------------------
(* Characters and names *)

UpperChars == <<"A","B","C","D","E","F","G","H","I","J","K","L","M",
                "N","O","P","Q","R","S","T","U","V","W","X","Y","Z">>
LowerChars == <<"a","b","c","d","e","f","g","h","i","j","k","l","m",
                "n","o","p","q","r","s","t","u","v","w","x","y","z">>

\* str.lower() on one ASCII character
LowerChar(c) ==
    IF \E i \in 1..Len(UpperChars) : UpperChars[i] = c
    THEN LowerChars[CHOOSE i \in 1..Len(UpperChars) : UpperChars[i] = c]
    ELSE c

\* name.lower()
Lower(name) == [i \in 1..Len(name) |-> LowerChar(name[i])]

\* Python's `word in text` on strings: word is a contiguous substring of text
Contains(text, word) ==
    \E p \in 0..(Len(text) - Len(word)) :
        \A k \in 1..Len(word) : text[p + k] = word[k]

W_crash == <<"c", "r", "a", "s", "h">>
W_china == <<"c", "h", "i", "n", "a">>
W_splash == <<"s", "p", "l", "a", "s", "h">>
W_ride == <<"r", "i", "d", "e">>
W_cymbal == <<"c", "y", "m", "b", "a", "l">>
W_open == <<"o", "p", "e", "n">>
W_hat == <<"h", "a", "t">>
W_tom == <<"t", "o", "m">>
W_floor == <<"f", "l", "o", "o", "r">>
W_kick == <<"k", "i", "c", "k">>
W_snare == <<"s", "n", "a", "r", "e">>
W_clap == <<"c", "l", "a", "p">>
W_stick == <<"s", "t", "i", "c", "k">>
W_cowbell == <<"c", "o", "w", "b", "e", "l", "l">>
W_claves == <<"c", "l", "a", "v", "e", "s">>
W_tambourine == <<"t", "a", "m", "b", "o", "u", "r", "i", "n", "e">>
W_shaker == <<"s", "h", "a", "k", "e", "r">>
W_vibraslap == <<"v", "i", "b", "r", "a", "s", "l", "a", "p">>

NameKick == <<"K", "i", "c", "k">>
NameKick2 == <<"K", "i", "c", "k", "2">>
NameSnare == <<"S", "n", "a", "r", "e">>
NameRide == <<"R", "i", "d", "e">>
NameCrashCymbal1 == <<"C", "r", "a", "s", "h", " ", "C", "y", "m", "b", "a", "l", " ", "1">>
NameClosedHiHat == <<"C", "l", "o", "s", "e", "d", " ", "H", "i", "-", "H", "a", "t">>
NameOpenHiHat == <<"O", "p", "e", "n", " ", "H", "i", "-", "H", "a", "t">>
NameUnknown == <<"U", "n", "k", "n", "o", "w", "n", " ", "W", "e", "i", "r", "d", " ", "N", "a", "m", "e">>

-----------------------------------------------------------------------------
(* get_duration_for_sound, lines 31-60.  Result in tenths of a second. *)

\* the same chain with the two hi-hat tests in the opposite order
get_duration_for_sound_hat_first(name) ==
    LET name_lower == Lower(name) IN
    IF \E word \in {W_crash, W_china, W_splash} : Contains(name_lower, word) THEN 50
    ELSE IF \E word \in {W_ride, W_cymbal} : Contains(name_lower, word) THEN 40
    ELSE IF Contains(name_lower, W_hat) THEN 20
    ELSE IF Contains(name_lower, W_open) /\ Contains(name_lower, W_hat) THEN 30
    ELSE IF Contains(name_lower, W_tom) \/ Contains(name_lower, W_floor) THEN 25
    ELSE IF \E word \in {W_kick, W_snare, W_clap, W_stick, W_cowbell, W_claves} :
                Contains(name_lower, word) THEN 20
    ELSE IF \E word \in {W_tambourine, W_shaker, W_vibraslap} :
                Contains(name_lower, word) THEN 25
    ELSE 20

get_duration_for_sound(name) ==
    LET name_lower == Lower(name) IN
    IF \E word \in {W_crash, W_china, W_splash} : Contains(name_lower, word) THEN 50
    ELSE IF \E word \in {W_ride, W_cymbal} : Contains(name_lower, word) THEN 40
    ELSE IF Contains(name_lower, W_open) /\ Contains(name_lower, W_hat) THEN 30
    ELSE IF Contains(name_lower, W_hat) THEN 20
    ELSE IF Contains(name_lower, W_tom) \/ Contains(name_lower, W_floor) THEN 25
    ELSE IF \E word \in {W_kick, W_snare, W_clap, W_stick, W_cowbell, W_claves} :
                Contains(name_lower, word) THEN 20
    ELSE IF \E word \in {W_tambourine, W_shaker, W_vibraslap} :
                Contains(name_lower, word) THEN 25
    ELSE 20

-----------------------------------------------------------------------------
(* load_drum_mapping, lines 63-96 *)

DigitChars == <<"0","1","2","3","4","5","6","7","8","9">>

DigitValue(c) == (CHOOSE i \in 1..Len(DigitChars) : DigitChars[i] = c) - 1

\* int(note_str) on a string of decimal digits (leading zeros are accepted)
RECURSIVE ParseInt(_)
ParseInt(note_str) ==
    IF note_str = <<>> THEN 0
    ELSE 10 * ParseInt(SubSeq(note_str, 1, Len(note_str) - 1))
         + DigitValue(note_str[Len(note_str)])

\* json.load on an object: a dict in insertion order; a repeated key keeps
\* its first position and takes the last value
RECURSIVE json_load_object(_)
json_load_object(members) ==
    IF members = <<>> THEN <<>>
    ELSE LET init == json_load_object(SubSeq(members, 1, Len(members) - 1))
             last == members[Len(members)]
         IN  IF \E i \in 1..Len(init) : init[i].key = last.key
             THEN [i \in 1..Len(init) |->
                      IF init[i].key = last.key THEN last ELSE init[i]]
             ELSE Append(init, last)

\* insertion of x behind every element whose note is <= x's note
InsertByNote(sorted, x) ==
    LET n == Cardinality({i \in 1..Len(sorted) : sorted[i][1] <= x[1]})
    IN  SubSeq(sorted, 1, n) \o <<x>> \o SubSeq(sorted, n + 1, Len(sorted))

\* the object branch without line 94
sort_by_note_skipped(drum_list) == drum_list

\* drum_list.sort(key=lambda x: x[0]), line 94: stable, ascending by note
RECURSIVE sort_by_note(_)
sort_by_note(drum_list) ==
    IF drum_list = <<>> THEN <<>>
    ELSE InsertByNote(sort_by_note(SubSeq(drum_list, 1, Len(drum_list) - 1)),
                      drum_list[Len(drum_list)])

load_drum_mapping(mapping) ==
    IF mapping.shape = "array"
    THEN [i \in 1..Len(mapping.members) |->
             <<mapping.members[i].note, mapping.members[i].name,
               get_duration_for_sound(mapping.members[i].name)>>]
    ELSE LET items == json_load_object(mapping.members)
         IN  sort_by_note([i \in 1..Len(items) |->
                 <<ParseInt(items[i].key), items[i].name,
                   get_duration_for_sound(items[i].name)>>])

-----------------------------------------------------------------------------
(* Inputs *)

SeqsUpTo(S, n) == UNION {[1..k -> S] : k \in 0..n}

RECURSIVE Flatten(_)
Flatten(ss) == IF ss = <<>> THEN <<>> ELSE Head(ss) \o Flatten(Tail(ss))

Tokens ==
    {W_crash, W_china, W_splash, W_ride, W_cymbal, W_open, W_hat, W_tom, W_floor,
     W_kick, W_snare, W_clap, W_stick, W_cowbell, W_claves, W_tambourine,
     W_shaker, W_vibraslap,
     <<"C","r","a","s","h">>, <<"H","A","T">>, <<"O","p","e","n">>,
     <<" ">>, <<"1">>}

SoundNames ==
    {NameKick, NameCrashCymbal1, NameClosedHiHat, NameOpenHiHat, NameUnknown}
    \cup {Flatten(ts) : ts \in SeqsUpTo(Tokens, MaxTokens)}

Key36 == <<"3", "6">>
Key036 == <<"0", "3", "6">>
Key38 == <<"3", "8">>
Key49 == <<"4", "9">>

ArrayMembers(notes, names) == [note : notes, name : names]
ObjectMembers(keys, names) == [key : keys, name : names]

MappingFiles(arr, obj, n) ==
    [shape : {"array"}, members : SeqsUpTo(arr, n)]
    \cup [shape : {"object"}, members : SeqsUpTo(obj, n)]

\* mapping files given to `--list`
ListFiles ==
    MappingFiles(ArrayMembers({36, 38}, {NameKick, NameKick2, NameOpenHiHat}),
                 ObjectMembers({Key36, Key036, Key38, Key49}, {NameKick, NameSnare}),
                 MaxMembers)

Idle ==
    /\ spacing_multiplier = 1000 /\ velocity = 127 /\ bpm = 120
    /\ drum_mapping = <<>> /\ track = <<>> /\ events = <<>>
    /\ midi_file = "absent" /\ timing_file = "absent"

-----------------------------------------------------------------------------
(* A direct call of the classifier *)

InitClassify ==
    /\ pc = "classify"
    /\ sound_name \in SoundNames
    /\ sound_duration = -1
    /\ mapping_file = [shape |-> "array", members |-> <<>>]
    /\ Idle

Classify ==
    /\ pc = "classify"
    /\ sound_duration' = get_duration_for_sound(sound_name)
    /\ pc' = "done"
    /\ UNCHANGED <<mapping_file, spacing_multiplier, velocity, bpm, drum_mapping,
                   track, events, midi_file, timing_file, sound_name>>

NextClassify == Classify

SpecClassify == InitClassify /\ [][NextClassify]_vars

-----------------------------------------------------------------------------
(* main() with --list, lines 317-326: load the mapping, print it, return *)

InitList ==
    /\ pc = "list"
    /\ mapping_file \in ListFiles
    /\ sound_name = <<>> /\ sound_duration = -1
    /\ Idle

ListMapping ==
    /\ pc = "list"
    /\ drum_mapping' = load_drum_mapping(mapping_file)
    /\ pc' = "done"
    /\ UNCHANGED <<mapping_file, spacing_multiplier, velocity, bpm,
                   track, events, midi_file, timing_file, sound_name, sound_duration>>

NextList == ListMapping

SpecList == InitList /\ [][NextList]_vars

-----------------------------------------------------------------------------
(* generate_drum_midi, lines 99-267: arithmetic *)

Abs(x) == IF x < 0 THEN -x ELSE x

\* int(x) of the rational x = num / den, den > 0: truncation toward zero
Trunc(num, den) == IF num >= 0 THEN num \div den ELSE -((-num) \div den)

\* round(x) / "%.4f" of the rational x = num / den, den # 0: to the nearest
\* integer, a tie to the even one
RoundHalfEven(num, den) ==
    LET a == Abs(num)
        b == Abs(den)
        q == a \div b
        r == a % b
        m == IF 2 * r > b \/ (2 * r = b /\ q % 2 = 1) THEN q + 1 ELSE q
    IN  IF (num < 0) = (den < 0) THEN m ELSE -m

\* mido.bpm2tempo(bpm) = int(round(60 * 1e6 / bpm)), bpm # 0
bpm2tempo(b) == RoundHalfEven(60000000, b)

ticks_per_beat == DEFAULT_TICKS_PER_BEAT

RECURSIVE GCD(_, _)
GCD(a, b) == IF b = 0 THEN a ELSE GCD(b, a % b)

\* line 142
lead_in_ticks == ticks_per_beat

\* base_duration * spacing_multiplier, in 1/10000 s
duration_seconds(base_duration) == base_duration * spacing_multiplier

\* the tick count rounded to the nearest integer instead of truncated
seconds_to_ticks_rounded(seconds) ==
    LET g == GCD(ticks_per_beat, 600000)
    IN  RoundHalfEven(seconds * bpm * (ticks_per_beat \div g), 600000 \div g)

\* int(seconds * (bpm / 60) * ticks_per_beat), seconds in 1/10000 s: the
\* rational seconds * bpm * ticks_per_beat / 600000, in lowest terms of
\* ticks_per_beat / 600000 to stay inside TLC's 32-bit integers
seconds_to_ticks(seconds) ==
    LET g == GCD(ticks_per_beat, 600000)
    IN  Trunc(seconds * bpm * (ticks_per_beat \div g), 600000 \div g)

\* lines 212-214
duration_ticks(base_duration) == seconds_to_ticks(duration_seconds(base_duration))

\* line 215: int(0.1 * (bpm / 60) * ticks_per_beat)
note_length_ticks == seconds_to_ticks(1000)

-----------------------------------------------------------------------------
(* generate_drum_midi: messages and the three layout passes *)

Message(type, note, vel, time) ==
    [type |-> type, note |-> note, velocity |-> vel, time |-> time]

\* mido checks the data bytes of a Message when it is constructed
MessageOk(note, vel) == note \in 0..MAX_DATA_BYTE /\ vel \in 0..MAX_DATA_BYTE

\* lines 126-129, 176-177, 203-204
TrackHeader ==
    << [type |-> "set_tempo", tempo |-> bpm2tempo(bpm), time |-> 0],
       [type |-> "track_name", name |-> "Logic Drum Export", time |-> 0] >>

\* a clear() that leaves the list as it is
track_clear_noop(t) == t

\* track.clear(), lines 175 and 202
track_clear(t) == <<>>

\* lines 144-161: the messages appended by the first pass
FirstPassMessages(mapping) ==
    Flatten([i \in 1..Len(mapping) |->
        << Message("note_on", mapping[i][1], velocity,
                   IF i = 1 THEN lead_in_ticks ELSE 0),
           Message("note_off", mapping[i][1], 0, note_length_ticks) >>])

\* lines 181-199: the messages appended by the second pass
SecondPassMessages(mapping) ==
    Flatten([i \in 1..Len(mapping) |->
        << Message("note_on", mapping[i][1], velocity,
                   IF i = 1 THEN lead_in_ticks ELSE 0),
           Message("note_off", mapping[i][1], 0, note_length_ticks) >>
        \o (IF i < Len(mapping)
            THEN << Message("note_on", 0, 0,
                            duration_ticks(mapping[i][3]) - note_length_ticks),
                    Message("note_off", 0, 0, 0) >>
            ELSE <<>>)])

\* value of current_tick when the final pass reaches entry i (1-based)
RECURSIVE current_tick(_, _)
current_tick(mapping, i) ==
    IF i = 1 THEN lead_in_ticks
    ELSE current_tick(mapping, i - 1) + duration_ticks(mapping[i - 1][3])

\* lines 210-220.  `entry` is auxiliary: the index of the mapping entry that
\* produced the event; neither the sort nor the track reads it.
BuildEvents(mapping) ==
    Flatten([i \in 1..Len(mapping) |->
        << [tick |-> current_tick(mapping, i), type |-> "note_on",
            note |-> mapping[i][1], vel |-> velocity, entry |-> i],
           [tick |-> current_tick(mapping, i) + note_length_ticks,
            type |-> "note_off", note |-> mapping[i][1], vel |-> 0,
            entry |-> i] >>])

\* the tie-break the other way round
EventRank_on_first(e) == IF e.type = "note_off" THEN 1 ELSE 0

\* line 223: second component of the sort key
EventRank(e) == IF e.type = "note_off" THEN 0 ELSE 1

\* line 223: key(a) <= key(b) for the key (tick, rank)
KeyLeq(a, b) ==
    \/ a.tick < b.tick
    \/ a.tick = b.tick /\ EventRank(a) <= EventRank(b)

InsertEvent(sorted, x) ==
    LET n == Cardinality({i \in 1..Len(sorted) : KeyLeq(sorted[i], x)})
    IN  SubSeq(sorted, 1, n) \o <<x>> \o SubSeq(sorted, n + 1, Len(sorted))

\* the event list left in construction order
sort_events_skipped(evs) == evs

\* events.sort(key=...), line 223: stable
RECURSIVE sort_events(_)
sort_events(evs) ==
    IF evs = <<>> THEN <<>>
    ELSE InsertEvent(sort_events(SubSeq(evs, 1, Len(evs) - 1)), evs[Len(evs)])

\* lines 226-233: absolute ticks to delta times
DeltaMessages(evs) ==
    [k \in 1..Len(evs) |->
        Message(evs[k].type, evs[k].note, evs[k].vel,
                evs[k].tick - (IF k = 1 THEN 0 ELSE evs[k - 1].tick))]

\* an end_of_track placed one beat after the last entry's full spacing
EndOfTrack_after_spacing ==
    [type |-> "end_of_track",
     time |-> IF drum_mapping = <<>> THEN ticks_per_beat
              ELSE duration_ticks(drum_mapping[Len(drum_mapping)][3])
                   - note_length_ticks + ticks_per_beat]

\* line 236
EndOfTrack == [type |-> "end_of_track", time |-> ticks_per_beat]

\* lines 259-263: the records of the timing file; times as printed by %.4f
RECURSIVE elapsed(_, _)
elapsed(mapping, i) ==
    IF i = 1 THEN 0
    ELSE elapsed(mapping, i - 1) + duration_seconds(mapping[i - 1][3])

TimingRecords(mapping) ==
    [i \in 1..Len(mapping) |->
        [index |-> i - 1, note |-> mapping[i][1], name |-> mapping[i][2],
         start_time_sec |-> RoundHalfEven(600000 + bpm * elapsed(mapping, i), bpm),
         duration_sec |-> duration_seconds(mapping[i][3])]]

-----------------------------------------------------------------------------
(* generate_drum_midi: the run *)

BpmValues == {-60, 0, 30, 90, 120}
SpacingValues == {-1000, 0, 1, 50, 333, 1000}
VelocityValues == {-1, 0, 127, 128}

\* mapping files given to generate_drum_midi
GenerateFiles ==
    MappingFiles(ArrayMembers({36, 49}, {NameKick, NameRide}),
                 {[key |-> Key38, name |-> NameKick],
                  [key |-> Key36, name |-> NameCrashCymbal1]},
                 MaxEntries)

Init ==
    /\ pc = "generate"
    /\ mapping_file \in GenerateFiles
    /\ spacing_multiplier \in SpacingValues
    /\ velocity \in VelocityValues
    /\ bpm \in BpmValues
    /\ drum_mapping = <<>> /\ track = <<>> /\ events = <<>>
    /\ midi_file = "absent" /\ timing_file = "absent"
    /\ sound_name = <<>> /\ sound_duration = -1

\* lines 117-118
LoadMapping ==
    /\ pc = "generate"
    /\ drum_mapping' = load_drum_mapping(mapping_file)
    /\ pc' = "setup"
    /\ UNCHANGED <<mapping_file, spacing_multiplier, velocity, bpm, track, events,
                   midi_file, timing_file, sound_name, sound_duration>>

\* lines 125-126 accept the tempo: bpm2tempo divides by bpm, and the set_tempo
\* meta message takes a tempo of 0..MAX_TEMPO only
TempoOk == bpm # 0 /\ bpm2tempo(bpm) \in 0..MAX_TEMPO

\* lines 120-142
SetupTrack ==
    /\ pc = "setup"
    /\ TempoOk
    /\ track' = TrackHeader
    /\ pc' = "pass1"
    /\ UNCHANGED <<mapping_file, spacing_multiplier, velocity, bpm, drum_mapping,
                   events, midi_file, timing_file, sound_name, sound_duration>>

\* lines 125-126 raise (ZeroDivisionError or ValueError): the run ends
SetupTrackError ==
    /\ pc = "setup"
    /\ ~TempoOk
    /\ pc' = "error"
    /\ UNCHANGED <<mapping_file, spacing_multiplier, velocity, bpm, drum_mapping,
                   track, events, midi_file, timing_file, sound_name, sound_duration>>

\* every Message the first pass constructs is accepted
NotesOk == \A i \in 1..Len(drum_mapping) : MessageOk(drum_mapping[i][1], velocity)

\* lines 139-172
FirstPass ==
    /\ pc = "pass1"
    /\ NotesOk
    /\ track' = track \o FirstPassMessages(drum_mapping)
    /\ pc' = "pass2"
    /\ UNCHANGED <<mapping_file, spacing_multiplier, velocity, bpm, drum_mapping,
                   events, midi_file, timing_file, sound_name, sound_duration>>

\* line 157 raises ValueError on a data byte out of range: the run ends
FirstPassError ==
    /\ pc = "pass1"
    /\ ~NotesOk
    /\ pc' = "error"
    /\ UNCHANGED <<mapping_file, spacing_multiplier, velocity, bpm, drum_mapping,
                   track, events, midi_file, timing_file, sound_name, sound_duration>>

\* lines 174-199
SecondPass ==
    /\ pc = "pass2"
    /\ track' = track_clear(track) \o TrackHeader \o SecondPassMessages(drum_mapping)
    /\ pc' = "final"
    /\ UNCHANGED <<mapping_file, spacing_multiplier, velocity, bpm, drum_mapping,
                   events, midi_file, timing_file, sound_name, sound_duration>>

\* lines 201-236: clear, header, event list, sort, delta times, end of track
FinalPass ==
    /\ pc = "final"
    /\ events' = sort_events(BuildEvents(drum_mapping))
    /\ track' = track_clear(track) \o TrackHeader \o DeltaMessages(events')
                    \o <<EndOfTrack>>
    /\ pc' = "save"
    /\ UNCHANGED <<mapping_file, spacing_multiplier, velocity, bpm, drum_mapping,
                   midi_file, timing_file, sound_name, sound_duration>>

\* mid.save writes delta times as variable-length quantities: none negative
TimesOk == \A k \in 1..Len(track) : track[k].time >= 0

\* line 239
Save ==
    /\ pc = "save"
    /\ TimesOk
    /\ midi_file' = track
    /\ pc' = "timing"
    /\ UNCHANGED <<mapping_file, spacing_multiplier, velocity, bpm, drum_mapping,
                   track, events, timing_file, sound_name, sound_duration>>

\* line 239 raises ValueError on a negative time, after the file was opened
\* and its header chunk written
SaveError ==
    /\ pc = "save"
    /\ ~TimesOk
    /\ midi_file' = "partial"
    /\ pc' = "error"
    /\ UNCHANGED <<mapping_file, spacing_multiplier, velocity, bpm, drum_mapping,
                   track, events, timing_file, sound_name, sound_duration>>

\* lines 241-267
WriteTiming ==
    /\ pc = "timing"
    /\ timing_file' = TimingRecords(drum_mapping)
    /\ pc' = "done"
    /\ UNCHANGED <<mapping_file, spacing_multiplier, velocity, bpm, drum_mapping,
                   track, events, midi_file, sound_name, sound_duration>>

Next ==
    \/ LoadMapping
    \/ SetupTrack
    \/ SetupTrackError
    \/ FirstPass
    \/ FirstPassError
    \/ SecondPass
    \/ FinalPass
    \/ Save
    \/ SaveError
    \/ WriteTiming

Spec == Init /\ [][Next]_vars

-----------------------------------------------------------------------------
(* Vocabulary of the properties *)

\* a configuration the sequencer's contract admits
ValidConfiguration ==
    /\ spacing_multiplier > 0
    /\ bpm > 0
    /\ ticks_per_beat > 0
    /\ velocity \in 0..127

\* the final pass has written the track
TrackWritten == pc \in {"save", "timing", "done"}

\* absolute tick of the k-th message of t: the sum of the delta times up to it
RECURSIVE AbsTick(_, _)
AbsTick(t, k) == IF k = 0 THEN 0 ELSE AbsTick(t, k - 1) + t[k].time

\* index in `events` (and, shifted by the two header messages, in the track)
\* of the event of the given type that entry i produced
EventIndex(type, i) ==
    CHOOSE k \in 1..Len(events) : events[k].type = type /\ events[k].entry = i

\* absolute tick, re-derived from the track, of entry i's event of that type
StreamTick(type, i) == AbsTick(track, 2 + EventIndex(type, i))

NoteMessages(t) == SelectSeq(t, LAMBDA m : m.type \in {"note_on", "note_off"})
NoteOns(t) == SelectSeq(t, LAMBDA m : m.type = "note_on")
NoteOffs(t) == SelectSeq(t, LAMBDA m : m.type = "note_off")

-----------------------------------------------------------------------------
\* C1: for every valid configuration and every sequence, every delta time of
\* the written track (first event and end_of_track included) is >= 0, that is
\* the absolute ticks obtained by cumulative summation never decrease.
C1_DeltasNonNegative ==
    (ValidConfiguration /\ TrackWritten) =>
        /\ \A k \in 1..Len(track) : track[k].time >= 0
        /\ \A k \in 1..(Len(track) - 1) : AbsTick(track, k) <= AbsTick(track, k + 1)

\* a written track of two entries with the same note and different base
\* durations whose spacing is shorter than the note itself
C1_Witness ==
    /\ pc = "done" /\ ValidConfiguration
    /\ Len(drum_mapping) >= 2
    /\ drum_mapping[1][1] = drum_mapping[2][1]
    /\ drum_mapping[1][3] # drum_mapping[2][3]
    /\ duration_ticks(drum_mapping[1][3]) < note_length_ticks

\* C2: for consecutive entries i, i+1 with duration_ticks_i >= note_length_ticks
\* entry i's NoteOff comes before entry i+1's NoteOn in the final stream, at an
\* absolute tick that is not later.
C2_OffBeforeNextOn ==
    (pc \in {"save", "timing", "done", "error"} /\ events # <<>>) =>
        \A i \in 1..(Len(drum_mapping) - 1) :
            duration_ticks(drum_mapping[i][3]) >= note_length_ticks =>
                /\ EventIndex("note_off", i) < EventIndex("note_on", i + 1)
                /\ StreamTick("note_off", i) <= StreamTick("note_on", i + 1)
                /\ track[2 + EventIndex("note_off", i)].type = "note_off"
                /\ track[2 + EventIndex("note_on", i + 1)].type = "note_on"

\* a stream in which a NoteOff and the next entry's NoteOn share one tick
C2_Witness ==
    /\ pc = "done"
    /\ Len(drum_mapping) >= 2
    /\ duration_ticks(drum_mapping[1][3]) = note_length_ticks
    /\ StreamTick("note_off", 1) = StreamTick("note_on", 2)

\* int() of d * s * bpm / 60 * 480 = d10 * s1000 * bpm / 1250
TruncatedTicks(d10) ==
    LET x == d10 * spacing_multiplier * bpm
    IN  IF x >= 0 THEN x \div 1250 ELSE -((-x) \div 1250)

RECURSIVE SumTruncated(_)
SumTruncated(i) ==
    IF i = 0 THEN 0 ELSE SumTruncated(i - 1) + TruncatedTicks(drum_mapping[i][3])

\* C3 (amended): entry i's NoteOn is at lead-in (480) plus the sum over the
\* earlier entries of base_duration x spacing x bpm/60 x 480 TRUNCATED toward
\* zero, and its NoteOff is note_length_ticks later.
C3_OnTickTruncated ==
    (pc \in {"save", "timing", "done", "error"} /\ events # <<>>) =>
        \A i \in 1..Len(drum_mapping) :
            /\ StreamTick("note_on", i) = 480 + SumTruncated(i - 1)
            /\ StreamTick("note_off", i) = StreamTick("note_on", i) + note_length_ticks

RECURSIVE SumRounded(_)
SumRounded(i) ==
    IF i = 0 THEN 0
    ELSE SumRounded(i - 1)
         + RoundHalfEven(drum_mapping[i][3] * spacing_multiplier * bpm, 1250)

\* C3 as stated: the same with every duration_ticks rounded to the nearest
\* integer.
C3_OnTickRounded ==
    (ValidConfiguration /\ TrackWritten) =>
        \A i \in 1..Len(drum_mapping) :
            /\ StreamTick("note_on", i) = 480 + SumRounded(i - 1)
            /\ StreamTick("note_off", i) = StreamTick("note_on", i) + note_length_ticks

\* a later entry behind spacings whose exact tick counts have a fraction
C3_Witness ==
    /\ pc = "done" /\ ValidConfiguration
    /\ Len(drum_mapping) = 3
    /\ (drum_mapping[1][3] * spacing_multiplier * bpm) % 1250 > 625
    /\ StreamTick("note_on", 3) > 480

\* the run of the example: one entry of base duration 2.0, spacing 1.0,
\* 120 bpm, 480 ticks per beat, saved
C4_Example ==
    /\ pc = "done"
    /\ Len(drum_mapping) = 1 /\ drum_mapping[1][3] = 20
    /\ spacing_multiplier = 1000 /\ bpm = 120 /\ ticks_per_beat = 480

\* C4 (amended): the example yields NoteOn at tick 480, NoteOff at 480+96 and
\* end_of_track at 480+96+480.
C4_ExampleTicks ==
    C4_Example =>
        /\ Len(midi_file) = 5
        /\ midi_file[3].type = "note_on" /\ AbsTick(midi_file, 3) = 480
        /\ midi_file[4].type = "note_off" /\ AbsTick(midi_file, 4) = 480 + 96
        /\ midi_file[5].type = "end_of_track"
        /\ AbsTick(midi_file, 5) = 480 + 96 + 480

\* C4 as stated: NoteOn at 480, NoteOff at 480+48, end marker at 480+960+480.
C4_ExampleTicksAsStated ==
    C4_Example =>
        /\ Len(midi_file) = 5
        /\ midi_file[3].type = "note_on" /\ AbsTick(midi_file, 3) = 480
        /\ midi_file[4].type = "note_off" /\ AbsTick(midi_file, 4) = 480 + 48
        /\ midi_file[5].type = "end_of_track"
        /\ AbsTick(midi_file, 5) = 480 + 960 + 480

C4_Witness == C4_Example /\ velocity = 127 /\ midi_file[3].velocity = 127

\* C5: for every valid configuration and every entry i, the start time written
\* to the timing file and the absolute tick of entry i's NoteOn converted to
\* seconds differ by at most one tick's worth of time.  In 1/10000 s:
\* |start - tick * 10000 / (8 * bpm)| <= 10000 / (8 * bpm).
C5_ReportWithinOneTick ==
    (ValidConfiguration /\ pc = "done") =>
        \A i \in 1..Len(drum_mapping) :
            Abs(timing_file[i].start_time_sec * bpm
                - 1250 * StreamTick("note_on", i)) <= 1250

\* C6: with bpm <= 0, spacing_multiplier <= 0 or a velocity outside 0..127 the
\* run never reaches the save step and writes neither file.
C6_InvalidConfigurationRejected ==
    ~ValidConfiguration =>
        /\ pc \notin {"save", "timing", "done"}
        /\ midi_file = "absent"
        /\ timing_file = "absent"

C10_SavedTrackShape ==
    (ValidConfiguration /\ pc = "done") =>
        LET N == Len(drum_mapping) IN
        /\ Len(midi_file) = 2 * N + 3
        /\ midi_file[1].type = "set_tempo"
        /\ midi_file[2].type = "track_name"
        /\ midi_file[2 * N + 3].type = "end_of_track"
        /\ Len(NoteMessages(midi_file)) = 2 * N
        /\ NoteOns(midi_file) =
               [i \in 1..N |-> Message("note_on", drum_mapping[i][1], velocity,
                                       NoteOns(midi_file)[i].time)]
        /\ Len(NoteOffs(midi_file)) = N
        /\ \A i \in 1..N :
               /\ midi_file[2 + EventIndex("note_on", i)].note = drum_mapping[i][1]
               /\ midi_file[2 + EventIndex("note_off", i)].note = drum_mapping[i][1]
               /\ midi_file[2 + EventIndex("note_off", i)].type = "note_off"
        /\ \A i \in 1..(N - 1) :
               EventIndex("note_on", i) < EventIndex("note_on", i + 1)

\* a saved track of entries with different notes whose spacing is zero ticks
C10_Witness ==
    /\ pc = "done" /\ ValidConfiguration
    /\ Len(drum_mapping) = 3
    /\ drum_mapping[1][1] # drum_mapping[2][1]
    /\ duration_ticks(drum_mapping[1][3]) = 0
    /\ StreamTick("note_on", 1) = StreamTick("note_on", 2)

-----------------------------------------------------------------------------
(* Properties of load_drum_mapping *)

\* the integer each key of the mapping files denotes
KeyNote(key) ==
    CASE key = Key36 -> 36
      [] key = Key036 -> 36
      [] key = Key38 -> 38
      [] key = Key49 -> 49

FileKeys == {mapping_file.members[i].key : i \in 1..Len(mapping_file.members)}

\* the value the file gives last for a key
LastName(key) ==
    LET last == CHOOSE i \in 1..Len(mapping_file.members) :
                    /\ mapping_file.members[i].key = key
                    /\ \A j \in (i + 1)..Len(mapping_file.members) :
                           mapping_file.members[j].key # key
    IN  mapping_file.members[last].name

ArrayOrderPreserved ==
    /\ Len(drum_mapping) = Len(mapping_file.members)
    /\ \A i \in 1..Len(drum_mapping) :
           /\ drum_mapping[i][1] = mapping_file.members[i].note
           /\ drum_mapping[i][2] = mapping_file.members[i].name

SortedByNote ==
    \A i \in 1..(Len(drum_mapping) - 1) : drum_mapping[i][1] <= drum_mapping[i + 1][1]

\* C8 (amended): an array keeps length, order and every (note, name), entries
\* with the same note included; a keyed object comes out sorted ascending by
\* integer note with exactly one entry per distinct key STRING, carrying the
\* last name given for that key, so keys that are different strings for the
\* same number ("36", "036") stay separate entries.
C8_LoadOrder ==
    pc = "done" =>
        IF mapping_file.shape = "array"
        THEN ArrayOrderPreserved
        ELSE /\ SortedByNote
             /\ Len(drum_mapping) = Cardinality(FileKeys)
             /\ \A key \in FileKeys :
                    \E i \in 1..Len(drum_mapping) :
                        /\ drum_mapping[i][1] = KeyNote(key)
                        /\ drum_mapping[i][2] = LastName(key)

\* C8 as stated: the same for arrays; a keyed object comes out sorted with at
\* most one entry per note number.
C8_LoadOrderAsStated ==
    pc = "done" =>
        IF mapping_file.shape = "array"
        THEN ArrayOrderPreserved
        ELSE /\ SortedByNote
             /\ \A i, j \in 1..Len(drum_mapping) :
                    i # j => drum_mapping[i][1] # drum_mapping[j][1]

\* an object given out of note order with one key repeated
C8_Witness ==
    /\ pc = "done"
    /\ mapping_file.shape = "object"
    /\ Len(mapping_file.members) = 3
    /\ mapping_file.members[1].key = Key38
    /\ mapping_file.members[2].key = Key36
    /\ mapping_file.members[3].key = Key38
    /\ mapping_file.members[1].name # mapping_file.members[3].name
    /\ Len(drum_mapping) = 2

-----------------------------------------------------------------------------
(* Properties of get_duration_for_sound *)

\* word occurs in name, letter case ignored
OccursIgnoringCase(name, word) ==
    \E p \in 0..(Len(name) - Len(word)) :
        \A k \in 1..Len(word) :
            \/ name[p + k] = word[k]
            \/ \E c \in 1..26 : name[p + k] = UpperChars[c] /\ word[k] = LowerChars[c]

\* the eight rules in order: some word of `any` (when not empty) and every
\* word of `all` occur
Rules ==
    << [any |-> {W_crash, W_china, W_splash}, all |-> {}, seconds10 |-> 50],
       [any |-> {W_ride, W_cymbal}, all |-> {}, seconds10 |-> 40],
       [any |-> {}, all |-> {W_open, W_hat}, seconds10 |-> 30],
       [any |-> {W_hat}, all |-> {}, seconds10 |-> 20],
       [any |-> {W_tom, W_floor}, all |-> {}, seconds10 |-> 25],
       [any |-> {W_kick, W_snare, W_clap, W_stick, W_cowbell, W_claves},
        all |-> {}, seconds10 |-> 20],
       [any |-> {W_tambourine, W_shaker, W_vibraslap}, all |-> {}, seconds10 |-> 25],
       [any |-> {}, all |-> {}, seconds10 |-> 20] >>

RuleMatches(r, name) ==
    /\ Rules[r].any = {} \/ \E w \in Rules[r].any : OccursIgnoringCase(name, w)
    /\ \A w \in Rules[r].all : OccursIgnoringCase(name, w)

FirstMatchingRule(name) ==
    CHOOSE r \in 1..Len(Rules) :
        RuleMatches(r, name) /\ \A q \in 1..(r - 1) : ~RuleMatches(q, name)

\* C9: the result is the duration of the lowest-numbered of the eight rules
\* whose keywords occur in the name, letter case ignored, for every name; the
\* five examples give 5.0, 2.0, 3.0, 2.0 and 2.0.
C9_FirstMatchWins ==
    pc = "done" =>
        /\ sound_duration = Rules[FirstMatchingRule(sound_name)].seconds10
        /\ sound_name = NameCrashCymbal1 => sound_duration = 50
        /\ sound_name = NameClosedHiHat => sound_duration = 20
        /\ sound_name = NameOpenHiHat => sound_duration = 30
        /\ sound_name = NameKick => sound_duration = 20
        /\ sound_name = NameUnknown => sound_duration = 20

\* a classified name in mixed case that matches rule 3 and rule 4
C9_Witness ==
    /\ pc = "done"
    /\ sound_name = <<"H", "A", "T">> \o <<"O", "p", "e", "n">>
    /\ RuleMatches(3, sound_name) /\ RuleMatches(4, sound_name)
    /\ sound_duration = 30

====
